---- MODULE Spec2Model ----
(***************************************************************************)
(* State-machine model of CEncoderLame (src/src/EncoderLame.cpp): one      *)
(* encoder session writing an MP3 stream to the host's sink.               *)
(*                                                                         *)
(* Bytes are not modelled by value but by origin: every byte carries a     *)
(* label saying which call produced it.  Byte strings (the sink, the       *)
(* staging buffer m_buffer) are run-length encoded sequences of            *)
(* <<label, count>> so that the real capacities (65536 bytes, 4096 frames) *)
(* can be kept.  Labels:                                                   *)
(*   "tag"     leading ID3 tag retrieved in Start                          *)
(*   "resv"    summary-frame placeholder the encoder reserves at the head  *)
(*             of its output                                               *)
(*   "audio"   compressed audio (encode and flush output)                  *)
(*   "v1"      trailing ID3v1 tag retrieved in Finish                      *)
(*   "summary" LAME/Xing summary frame retrieved in Finish                 *)
(*   "uninit"  m_buffer bytes no call has stored yet                       *)
(*   "oob"     bytes read past the end of m_buffer                         *)
(*   "hole"    sink bytes skipped by a seek past the end                   *)
(*                                                                         *)
(* The LAME library is not part of the repository.  Its calls are          *)
(* modelled by the results its interface allows: encode and flush return   *)
(* a negative number on error (always before lame_init_params has          *)
(* succeeded) or the number of bytes stored; an encode call with no frames *)
(* returns 0; the tag retrievals return 0, the size stored, or the size    *)
(* needed when it exceeds the size offered (nothing is stored then).       *)
(* lame_init_params reserves, at the head of the encoder's output, as many *)
(* placeholder bytes as lame_get_lametag_frame later returns.  The ID3     *)
(* tagger is modelled by the genre it holds: id3tag_set_genre takes the    *)
(* genre or rejects it with -1, and id3tag_set_textinfo_utf16, whose       *)
(* result the code does not read, takes the TCON text or does not.         *)
(*                                                                         *)
(* ToUtf16 reads and changes no member of the class; it is modelled as a   *)
(* function of its argument and of the outcomes of calloc and iconv_open,  *)
(* and checked under UtfSpec.  Start frees each of its results right after *)
(* handing it to the tagger.                                               *)
(*                                                                         *)
(* The class does not restrict the order of its calls, and neither does    *)
(* the model: Start, Encode and Finish may be called in any order, up to   *)
(* MaxOps calls per session.                                               *)
(***************************************************************************)
EXTENDS Integers, Sequences, FiniteSets, TLC

(***************************************************************************)
(* Program constants.                                                      *)
(***************************************************************************)
BufferSize == 65536
FrameCap == 4096
bytes_per_frame == 4

(***************************************************************************)
(* Bounds of the model.                                                    *)
(***************************************************************************)
MaxOps == 3
MaxTag == 3
MaxVbr == 2
MaxOut == 1
MaxBatches == 1
FairOps == 2
MaxStrLen == 4

Min(a, b) == IF a < b THEN a ELSE b

(***************************************************************************)
(* Run-length encoded byte strings.                                        *)
(***************************************************************************)
Rep(lab, n) == IF n > 0 THEN << <<lab, n>> >> ELSE << >>

RECURSIVE RLen(_)
RLen(r) == IF r = << >> THEN 0 ELSE r[1][2] + RLen(Tail(r))

RECURSIVE RTake(_, _)
RTake(r, k) ==
  IF k <= 0 \/ r = << >> THEN << >>
  ELSE IF r[1][2] <= k THEN << r[1] >> \o RTake(Tail(r), k - r[1][2])
  ELSE << <<r[1][1], k>> >>

RECURSIVE RDrop(_, _)
RDrop(r, k) ==
  IF r = << >> THEN << >>
  ELSE IF k <= 0 THEN r
  ELSE IF r[1][2] <= k THEN RDrop(Tail(r), k - r[1][2])
  ELSE << <<r[1][1], r[1][2] - k>> >> \o Tail(r)

RECURSIVE RNorm(_)
RNorm(r) ==
  IF Len(r) < 2 THEN r
  ELSE IF r[1][1] = r[2][1]
       THEN RNorm(<< <<r[1][1], r[1][2] + r[2][2]>> >> \o Tail(Tail(r)))
       ELSE << r[1] >> \o RNorm(Tail(r))

\* number of bytes of r labelled lab
RECURSIVE RCount(_, _)
RCount(r, lab) ==
  IF r = << >> THEN 0
  ELSE (IF r[1][1] = lab THEN r[1][2] ELSE 0) + RCount(Tail(r), lab)

(***************************************************************************)
(* The staging buffer: uint8_t m_buffer[65536].                            *)
(***************************************************************************)
\* a library call storing `data` at the start of the buffer; a call that
\* reports more than the buffer can hold stores nothing
BufStore(buf, data) ==
  IF RLen(data) > BufferSize THEN buf
  ELSE RNorm(data \o RDrop(buf, RLen(data)))

\* the len bytes Write(m_buffer, len) reads, starting at the buffer's start
BufRead(buf, len) ==
  IF len <= BufferSize THEN RTake(buf, len)
  ELSE RNorm(buf \o Rep("oob", len - BufferSize))

(***************************************************************************)
(* The sink: Write stores at the cursor and advances it, Seek(SEEK_SET)    *)
(* sets the cursor.                                                        *)
(***************************************************************************)
SinkStore(snk, pos, data) ==
  RNorm(RTake(snk, pos) \o Rep("hole", pos - RLen(snk)) \o data
        \o RDrop(snk, pos + RLen(data)))

VARIABLES
  m_encoder,     \* TRUE: lame_init returned a handle; FALSE: null
  m_audio_pos,   \* recorded audio start offset
  m_buffer,      \* staging buffer contents (run-length encoded)
  sink,          \* bytes of the output stream (run-length encoded)
  sinkPos,       \* the sink's cursor
  lame_ready,    \* lame_init_params has succeeded on the handle
  lame_vbr,      \* size of the summary frame the encoder reserved (0: none)
  lame_resv,     \* placeholder bytes still inside the encoder's bitstream
  pc,            \* "idle", or "encode" inside Encode's while loop
  numBytesRead,  \* Encode's argument
  bytes_left,    \* Encode's local
  stream,        \* Encode's argument, as an offset from the caller's buffer
  ret,           \* what the last completed call returned
  log,           \* library and sink calls of the current (or last) call
  pre,           \* m_audio_pos and the sink at the entry of that call
  hist,          \* the completed calls of the session, in order
  src,           \* ToUtf16's argument
  dst            \* ToUtf16's result

\* the session
encVars == << m_encoder, m_audio_pos, m_buffer, sink, sinkPos, lame_ready,
              lame_vbr, lame_resv, pc, numBytesRead, bytes_left, stream, ret,
              log, pre, hist >>

\* a call of the text transcoder, which reads and changes no member
utfVars == << src, dst >>

vars == << m_encoder, m_audio_pos, m_buffer, sink, sinkPos, lame_ready,
           lame_vbr, lame_resv, pc, numBytesRead, bytes_left, stream, ret, log, pre,
           hist, src, dst >>

(***************************************************************************)
(* Inputs.                                                                 *)
(***************************************************************************)
BatchBytes == FrameCap * bytes_per_frame

\* lengths the caller passes to Encode: short ones, and ones around whole
\* multiples of the per-call frame cap
ChunkLens ==
  {0, 1, 4, 7}
    \cup { k * BatchBytes + d : k \in 1 .. MaxBatches,
                                d \in {0, bytes_per_frame} }

\* the log keeps the calls of one operation; a call of Encode that consumes
\* its input makes fewer than LogCap entries, so the log is cut only in a
\* loop that goes on after the last whole frame: the iterations left out
\* are empty batches, for which nothing is encoded and 0 bytes are written
LogCap == 2 * (MaxBatches + 2)

\* <<channels, bits per sample>> of the stream to encode
Formats == { <<2, 16>>, <<1, 16>>, <<2, 8>> }

\* id3tag_set_genre: 0 when the genre is taken, -1 when it is rejected
GenreResults == {0, -1}

\* lame_init_params: negative on failure
InitParamsResults == {-1, 0}

\* lame_get_id3v1_tag: 0 (no tag) or the tag's size
Id3v1Results == {0, MaxTag}

\* lame_get_id3v2_tag: 0, the tag's size, or the size required when the
\* buffer offered is too small
Id3v2Results == {0, MaxTag, BufferSize + 1}

\* lame_init_params reserves room for the summary frame (0: disabled)
VbrSizes == {0, MaxVbr}

\* lame_encode_buffer_interleaved: negative on error, and always so before
\* lame_init_params has succeeded; nothing for an empty batch; else the
\* bytes pending in the bitstream (the reserved placeholder first) plus the
\* audio compressed so far
EncodeResults(frames) ==
  IF ~lame_ready THEN {-1}
  ELSE {-1} \cup (IF frames = 0 THEN {0}
                  ELSE { lame_resv, lame_resv + MaxOut })

\* lame_encode_flush: negative on error, and always so before
\* lame_init_params has succeeded; else everything still pending
FlushResults ==
  IF ~lame_ready THEN {-1}
  ELSE {-1, lame_resv, lame_resv + MaxOut}

\* lame_get_lametag_frame: 0 (disabled, or nothing encoded) or the size
\* reserved by lame_init_params
LameTagResults == {0, lame_vbr}

\* the bytes an encode or flush call returning `written` stores
EncodedBytes(written) ==
  Rep("resv", Min(lame_resv, written))
    \o Rep("audio", written - Min(lame_resv, written))

(***************************************************************************)
(* Conditions and expressions of the code.                                 *)
(***************************************************************************)
\* seeded fault: the null check is missing
NoEncoder_Unchecked(enc) == FALSE

\* if (!m_encoder)
NoEncoder(enc) == enc = FALSE

\* seeded fault: && for ||
InvalidFormat_Both(ch, bits) == ch # 2 /\ bits # 16

\* tag.GetChannels() != 2 || tag.GetBitsPerSample() != 16
InvalidFormat(ch, bits) == ch # 2 \/ bits # 16

\* if (test == -1)
GenreRejected(test) == test = -1

\* the genre the tagger holds after lines 94-96: the one supplied, or
\* "Other" when id3tag_set_genre rejected it
GenreAfterSet(test) == IF GenreRejected(test) THEN "Other" ELSE "supplied"

\* the genre the tagger holds after lines 133-135: with id3version 2 the
\* supplied genre is handed to the tagger again, as the text of the TCON
\* frame, whatever line 94 returned; the return value is not read, and
\* `stored` says whether the tagger took the text
GenreAfterTextinfo(genre, useVer2, stored) ==
  IF useVer2 /\ stored THEN "supplied" ELSE genre

\* seeded fault: a failure of lame_init_params is not noticed
InitParamsFailed_Ignored(initRes) == FALSE

\* if (lame_init_params(m_encoder) < 0)
InitParamsFailed(initRes) == initRes < 0

\* seeded fault: the cursor after the tag is recorded, not the tag's length
RecordedPos_Cursor(tag_length) == sinkPos + tag_length

\* seeded fault: the size offered to the retrieval is recorded, not its result
RecordedPos_Offered(tag_length) == BufferSize

\* m_audio_pos = tag_length
RecordedPos(tag_length) == tag_length

\* seeded fault: the per-call cap is missing
Frames_Uncapped(left) == left \div bytes_per_frame

\* std::min(bytes_left / bytes_per_frame, size_t(4096))
Frames(left) == Min(left \div bytes_per_frame, FrameCap)

\* while (bytes_left)
LoopCond(left) == left # 0

\* seeded fault: <= for <
EncodeFailed_OnEmpty(written) == written <= 0

\* if (written < 0) return -1
EncodeFailed(written) == written < 0

\* seeded fault: the whole buffer is written
WriteCount_Capacity(written) == BufferSize

\* Write(m_buffer, written)
WriteCount(written) == written

\* seeded fault: frames are returned for bytes
EncodeReturnValue_Frames(n, left) == (n - left) \div bytes_per_frame

\* return numBytesRead - bytes_left
EncodeReturnValue(n, left) == n - left

\* seeded fault: <= for <
FlushFailed_OnEmpty(written) == written <= 0

\* if (written < 0) return false
FlushFailed(written) == written < 0

\* if (id3v1tag > 0)
HasTrailingTag(id3v1tag) == id3v1tag > 0

\* seeded fault: the recorded offset is not tested
PatchDue_AnyPos(pos, lameTag) == lameTag > 0

\* if (m_audio_pos && lameTag > 0)
PatchDue(pos, lameTag) == pos # 0 /\ lameTag > 0

\* seeded fault: the patch goes to the start of the stream
PatchTarget_StreamStart(pos) == 0

\* Seek(m_audio_pos, SEEK_SET)
PatchTarget(pos) == pos

(***************************************************************************)
(* Log entries: <<kind, site, a, b>>.                                      *)
(***************************************************************************)
LameCall(site, a, b) == << "lame", site, a, b >>
WriteCall(site, len) == << "Write", site, len, 0 >>
SeekCall(site, pos) == << "Seek", site, pos, 0 >>

\* the genre carried by the tag a retrieval in Start returned
TagCarries(genre) == << "genre", genre, 0, 0 >>

\* Write(m_buffer, len) on sink state s = [bytes, pos], reading buffer buf
Write(s, buf, len) ==
  [bytes |-> SinkStore(s.bytes, s.pos, BufRead(buf, len)),
   pos |-> s.pos + len]

\* Seek(pos, SEEK_SET)
Seek(s, pos) == [bytes |-> s.bytes, pos |-> pos]

Entry == [audio_pos |-> m_audio_pos, sinkPos |-> sinkPos,
          sinkLen |-> RLen(sink), resv |-> lame_resv]

\* what a call returned: ok is the bool result (for Encode: no failure),
\* val is Encode's ssize_t result, arg the arguments the call was given
Returned(op, ok, val, arg) ==
  [op |-> op, ok |-> ok, val |-> val, arg |-> arg]

(***************************************************************************)
(* Values of the text transcoder (lines 218-246).  A string is a null      *)
(* pointer or the bytes before its terminating 0; a result is a null       *)
(* pointer or an allocation of `size` bytes holding the 16-bit units       *)
(* `units`, which reach past the allocation if more is written than was    *)
(* allocated.                                                              *)
(***************************************************************************)
NullString == [null |-> TRUE, bytes |-> << >>]

String(bytes) == [null |-> FALSE, bytes |-> bytes]

\* no call has returned yet
NotReturned ==
  [returned |-> FALSE, null |-> TRUE, calloc |-> "none", size |-> 0,
   units |-> << >>]

\* return dst, with dst = 0
NullResult(calloc) ==
  [returned |-> TRUE, null |-> TRUE, calloc |-> calloc, size |-> 0,
   units |-> << >>]

\* return dst, with dst the allocation
Buffer(size, units) ==
  [returned |-> TRUE, null |-> FALSE, calloc |-> "ok", size |-> size,
   units |-> units]

(***************************************************************************)
(* Constructor (lines 36-63): lame_init may fail and leave a null handle.  *)
(***************************************************************************)
Init ==
  /\ m_encoder \in BOOLEAN
  /\ m_audio_pos = 0
  /\ m_buffer = Rep("uninit", BufferSize)
  /\ sink = << >>
  /\ sinkPos = 0
  /\ lame_ready = FALSE
  /\ lame_vbr = 0
  /\ lame_resv = 0
  /\ pc = "idle"
  /\ numBytesRead = 0
  /\ bytes_left = 0
  /\ stream = 0
  /\ ret = Returned("none", FALSE, 0, << >>)
  /\ log = << >>
  /\ pre = [audio_pos |-> 0, sinkPos |-> 0, sinkLen |-> 0, resv |-> 0]
  /\ hist = << >>
  /\ src = NullString
  /\ dst = NotReturned

CanCall == pc = "idle" /\ Len(hist) < MaxOps

(***************************************************************************)
(* bool Start(tag) (lines 70-162).                                         *)
(***************************************************************************)
Start(ch, bits, test, useVer2, stored, initRes, vbr, tag_length) ==
  /\ CanCall
  /\ pre' = Entry
  /\ UNCHANGED << m_encoder, pc, numBytesRead, bytes_left, stream >>
  /\ UNCHANGED utfVars
  /\ IF NoEncoder(m_encoder) \/ InvalidFormat(ch, bits)
     THEN /\ log' = << >>
          /\ ret' = Returned("Start", FALSE, 0, << ch, bits >>)
          /\ hist' = Append(hist, << "Start", FALSE >>)
          /\ UNCHANGED << m_audio_pos, m_buffer, sink, sinkPos, lame_ready,
                          lame_vbr, lame_resv >>
     ELSE IF InitParamsFailed(initRes)
     THEN /\ log' = << LameCall("configure", 0, 0),
                       LameCall("init_params", initRes, 0) >>
          /\ ret' = Returned("Start", FALSE, 0, << ch, bits >>)
          /\ hist' = Append(hist, << "Start", FALSE >>)
          /\ lame_ready' = FALSE
          /\ UNCHANGED << m_audio_pos, m_buffer, sink, sinkPos, lame_vbr,
                          lame_resv >>
     ELSE LET buf == BufStore(m_buffer, Rep("tag", tag_length))
              out == Write([bytes |-> sink, pos |-> sinkPos], buf,
                           tag_length)
              get == IF useVer2 THEN "get_id3v2_tag" ELSE "get_id3v1_tag"
              genre == GenreAfterTextinfo(GenreAfterSet(test), useVer2,
                                          stored)
              setup == << LameCall("configure", 0, 0),
                          LameCall("id3tag_set_genre", test, 0),
                          LameCall("init_params", initRes, 0),
                          LameCall(get, tag_length, 0) >>
          IN /\ lame_ready' = TRUE
             /\ lame_vbr' = vbr
             /\ lame_resv' = vbr
             /\ m_buffer' = buf
             /\ ret' = Returned("Start", TRUE, 0, << ch, bits >>)
             /\ hist' = Append(hist, << "Start", TRUE >>)
             /\ IF tag_length # 0
                THEN /\ sink' = out.bytes
                     /\ sinkPos' = out.pos
                     /\ m_audio_pos' = RecordedPos(tag_length)
                     /\ log' = setup \o << TagCarries(genre),
                                           WriteCall("tag", tag_length) >>
                ELSE /\ UNCHANGED << sink, sinkPos, m_audio_pos >>
                     /\ log' = setup

\* a call that returns early reads none of the later inputs
CallStart ==
  \E fmt \in Formats :
    \E initRes \in (IF NoEncoder(m_encoder) \/ InvalidFormat(fmt[1], fmt[2])
                     THEN {0} ELSE InitParamsResults) :
      \E useVer2 \in (IF InitParamsFailed(initRes) THEN {FALSE} ELSE BOOLEAN),
         vbr \in (IF InitParamsFailed(initRes) THEN {0} ELSE VbrSizes) :
        \E tag_length \in (IF useVer2 THEN Id3v2Results ELSE Id3v1Results) :
          \E test \in (IF InitParamsFailed(initRes) THEN {0}
                       ELSE GenreResults),
             stored \in (IF useVer2 THEN BOOLEAN ELSE {FALSE}) :
            Start(fmt[1], fmt[2], test, useVer2, stored, initRes, vbr,
                  tag_length)

(***************************************************************************)
(* ssize_t Encode(stream, numBytesRead) (lines 164-188), one step per      *)
(* entry, per iteration of the while loop, and for the return.             *)
(***************************************************************************)
EncodeEnter(n) ==
  /\ CanCall
  /\ pre' = Entry
  /\ log' = << >>
  /\ UNCHANGED << m_encoder, m_audio_pos, m_buffer, sink, sinkPos,
                  lame_ready, lame_vbr, lame_resv >>
  /\ UNCHANGED utfVars
  /\ IF NoEncoder(m_encoder)
     THEN /\ ret' = Returned("Encode", FALSE, -1, << n >>)
          /\ hist' = Append(hist, << "Encode", FALSE >>)
          /\ UNCHANGED << pc, numBytesRead, bytes_left, stream >>
     ELSE /\ pc' = "encode"
          /\ numBytesRead' = n
          /\ bytes_left' = n
          /\ stream' = 0
          /\ UNCHANGED << ret, hist >>

Logged(entries) ==
  IF Len(log) >= LogCap THEN log ELSE log \o entries

EncodeStep(written) ==
  /\ pc = "encode"
  /\ LoopCond(bytes_left)
  /\ written \in EncodeResults(Frames(bytes_left))
  /\ UNCHANGED utfVars
  /\ LET frames == Frames(bytes_left)
         buf == BufStore(m_buffer, EncodedBytes(written))
         out == Write([bytes |-> sink, pos |-> sinkPos], buf,
                      WriteCount(written))
     IN /\ UNCHANGED << m_encoder, m_audio_pos, lame_ready, lame_vbr, pre >>
        /\ IF EncodeFailed(written)
           THEN /\ log' = log \o << LameCall("encode", frames, written) >>
                /\ pc' = "idle"
                /\ ret' = Returned("Encode", FALSE, -1, << numBytesRead >>)
                /\ hist' = Append(hist, << "Encode", FALSE >>)
                /\ numBytesRead' = 0
                /\ bytes_left' = 0
                /\ stream' = 0
                /\ UNCHANGED << m_buffer, sink, sinkPos, lame_resv >>
           ELSE /\ log' = Logged(<< LameCall("encode", frames, written),
                                    WriteCall("audio",
                                              WriteCount(written)) >>)
                /\ m_buffer' = buf
                /\ sink' = out.bytes
                /\ sinkPos' = out.pos
                /\ lame_resv' = lame_resv - Min(lame_resv, written)
                /\ stream' = stream + frames * bytes_per_frame
                /\ bytes_left' = bytes_left - frames * bytes_per_frame
                /\ UNCHANGED << pc, ret, hist, numBytesRead >>

EncodeReturn ==
  /\ pc = "encode"
  /\ ~LoopCond(bytes_left)
  /\ pc' = "idle"
  /\ ret' = Returned("Encode", TRUE,
                     EncodeReturnValue(numBytesRead, bytes_left),
                     << numBytesRead >>)
  /\ hist' = Append(hist, << "Encode", TRUE >>)
  /\ numBytesRead' = 0
  /\ bytes_left' = 0
  /\ stream' = 0
  /\ UNCHANGED << m_encoder, m_audio_pos, m_buffer, sink, sinkPos,
                  lame_ready, lame_vbr, lame_resv, log, pre >>
  /\ UNCHANGED utfVars

CallEncode == \E n \in ChunkLens : EncodeEnter(n)

\* an iteration on which lame_encode_buffer_interleaved reports no error
EncodeLoop ==
  \E written \in EncodeResults(Frames(bytes_left)) \ {-1} :
    EncodeStep(written)

\* an iteration on which it reports one
EncodeLoopError == EncodeStep(-1)

(***************************************************************************)
(* bool Finish() (lines 190-216).                                          *)
(***************************************************************************)
Finish(written, id3v1tag, lameTag) ==
  /\ CanCall
  /\ pre' = Entry
  /\ UNCHANGED << m_encoder, m_audio_pos, lame_ready, lame_vbr, pc,
                  numBytesRead, bytes_left, stream >>
  /\ UNCHANGED utfVars
  /\ IF NoEncoder(m_encoder)
     THEN /\ log' = << >>
          /\ ret' = Returned("Finish", FALSE, 0, << >>)
          /\ hist' = Append(hist, << "Finish", FALSE >>)
          /\ UNCHANGED << m_buffer, sink, sinkPos, lame_resv >>
     ELSE IF FlushFailed(written)
     THEN /\ log' = << LameCall("flush", written, 0) >>
          /\ ret' = Returned("Finish", FALSE, 0, << >>)
          /\ hist' = Append(hist, << "Finish", FALSE >>)
          /\ UNCHANGED << m_buffer, sink, sinkPos, lame_resv >>
     ELSE LET s0 == [bytes |-> sink, pos |-> sinkPos]
              \* lame_encode_flush, Write(m_buffer, written)
              b1 == BufStore(m_buffer, EncodedBytes(written))
              s1 == Write(s0, b1, written)
              l1 == << LameCall("flush", written, 0),
                       WriteCall("flush", written) >>
              \* lame_get_id3v1_tag, Write(m_buffer, id3v1tag)
              b2 == BufStore(b1, Rep("v1", id3v1tag))
              s2 == IF HasTrailingTag(id3v1tag)
                    THEN Write(s1, b2, id3v1tag) ELSE s1
              l2 == << LameCall("get_id3v1_tag", id3v1tag, 0) >>
                    \o (IF HasTrailingTag(id3v1tag)
                        THEN << WriteCall("id3v1", id3v1tag) >> ELSE << >>)
              \* lame_get_lametag_frame, Seek, Write(m_buffer, lameTag)
              b3 == BufStore(b2, Rep("summary", lameTag))
              s3 == IF PatchDue(m_audio_pos, lameTag)
                    THEN Write(Seek(s2, PatchTarget(m_audio_pos)), b3,
                               lameTag)
                    ELSE s2
              l3 == << LameCall("get_lametag_frame", lameTag, 0) >>
                    \o (IF PatchDue(m_audio_pos, lameTag)
                        THEN << SeekCall("summary", PatchTarget(m_audio_pos)),
                                WriteCall("summary", lameTag) >>
                        ELSE << >>)
          IN /\ m_buffer' = b3
             /\ sink' = s3.bytes
             /\ sinkPos' = s3.pos
             /\ lame_resv' = lame_resv - Min(lame_resv, written)
             /\ log' = l1 \o l2 \o l3
             /\ ret' = Returned("Finish", TRUE, 0, << >>)
             /\ hist' = Append(hist, << "Finish", TRUE >>)

\* a call that returns early reads none of the later inputs
CallFinish ==
  \E written \in (IF NoEncoder(m_encoder) THEN {-1} ELSE FlushResults) :
    \E id3v1tag \in (IF FlushFailed(written) THEN {0} ELSE Id3v1Results),
       lameTag \in (IF FlushFailed(written) THEN {0} ELSE LameTagResults) :
      Finish(written, id3v1tag, lameTag)

Next ==
  \/ CallStart
  \/ CallEncode
  \/ EncodeLoop
  \/ EncodeLoopError
  \/ EncodeReturn
  \/ CallFinish

Spec == Init /\ [][Next]_vars

(***************************************************************************)
(* The code runs on: a call that has been entered takes its next step.     *)
(* Nothing obliges an encoder that can encode to report an error, so the   *)
(* error step is fair only where it is the one step the loop can take.     *)
(***************************************************************************)
\* sessions of at most FairOps calls
FairNext == Len(hist) < FairOps /\ Next

\* an iteration on an encoder that lame_init_params has not set up
EncodeRefused == ~lame_ready /\ EncodeLoopError

FairSpec ==
  /\ Init /\ [][FairNext]_vars
  /\ WF_vars(EncodeLoop)
  /\ WF_vars(EncodeRefused)
  /\ WF_vars(EncodeReturn)

(***************************************************************************)
(* short unsigned int* ToUtf16(const char* src) (lines 218-246).           *)
(* iconv("UTF-16LE//TRANSLIT", "UTF-8") converts character by character    *)
(* and stops at the first byte sequence that is not UTF-8 or is cut short, *)
(* or when the room left is too small for the next character; what it has  *)
(* converted so far stays in the output.                                   *)
(***************************************************************************)
\* dst[0] = 0xfeff
BOM == 65279

\* the bytes strings are made of: 'A'; C3 A9 (U+00E9); E2 80 80 (U+2000);
\* F0 9F 80 80 (U+1F000); and with them sequences that are not UTF-8
Utf8Bytes == {65, 195, 169, 226, 240, 159, 128}

RECURSIVE Strings(_)
Strings(k) ==
  IF k = 0 THEN { << >> }
  ELSE Strings(k - 1)
         \cup { Append(b, c) : b \in { x \in Strings(k - 1) : Len(x) = k - 1 },
                               c \in Utf8Bytes }

\* the arguments: a null pointer, or a string of up to MaxStrLen bytes
Sources == { NullString } \cup { String(b) : b \in Strings(MaxStrLen) }

\* the first character of a non-empty byte string: whether it is well
\* formed UTF-8, its code point, and the number of bytes it takes
Utf8Decode(bytes) ==
  LET b1 == bytes[1]
      more == IF b1 < 128 THEN 0
              ELSE IF b1 \in 194 .. 223 THEN 1
              ELSE IF b1 \in 224 .. 239 THEN 2
              ELSE IF b1 \in 240 .. 244 THEN 3
              ELSE -1
      whole == /\ more >= 0
               /\ Len(bytes) >= more + 1
               /\ \A i \in 2 .. (more + 1) : bytes[i] \in 128 .. 191
      cp == IF more = 0 THEN b1
            ELSE IF more = 1 THEN (b1 - 192) * 64 + (bytes[2] - 128)
            ELSE IF more = 2
            THEN (b1 - 224) * 4096 + (bytes[2] - 128) * 64 + (bytes[3] - 128)
            ELSE (b1 - 240) * 262144 + (bytes[2] - 128) * 4096
                   + (bytes[3] - 128) * 64 + (bytes[4] - 128)
      valid == /\ whole
               /\ more = 2 => (cp >= 2048 /\ cp \notin 55296 .. 57343)
               /\ more = 3 => cp \in 65536 .. 1114111
  IN [ok |-> valid, cp |-> IF valid THEN cp ELSE 0, len |-> more + 1]

\* a code point in UTF-16: one unit, or a surrogate pair
Utf16Units(cp) ==
  IF cp < 65536 THEN << cp >>
  ELSE << 55296 + ((cp - 65536) \div 1024), 56320 + ((cp - 65536) % 1024) >>

\* iconv(xiconv, &i_ptr, &srcln, &o_ptr, &avail): the units stored
RECURSIVE Iconv(_, _)
Iconv(bytes, avail) ==
  IF bytes = << >> THEN << >>
  ELSE LET c == Utf8Decode(bytes)
           u == Utf16Units(c.cp)
       IN IF ~c.ok \/ 2 * Len(u) > avail THEN << >>
          ELSE u \o Iconv(SubSeq(bytes, c.len + 1, Len(bytes)),
                          avail - 2 * Len(u))

\* size_t const n = (l + 1) * 4
OutputRoom(l) == (l + 1) * 4

\* seeded fault: room for l units, none for the BOM and the terminator
AllocBytes_TextOnly(n) == n \div 2 - 2

\* calloc(n + 4, 4): the bytes allocated
AllocBytes(n) == (n + 4) * 4

\* the zeroed allocation of `size` bytes after `stored` has been written
\* from its start: the units stored, then the zeros left
Zeroed(size, stored) ==
  stored \o [i \in 1 .. (size \div 2 - Len(stored)) |-> 0]

ToUtf16(s, callocOk, iconvOk) ==
  IF s.null THEN NullResult("none")
  ELSE LET l == Len(s.bytes)
           n == OutputRoom(l)
           size == AllocBytes(n)
       IN IF ~callocOk THEN NullResult("failed")
          ELSE IF iconvOk
          THEN Buffer(size, Zeroed(size, << BOM >> \o Iconv(s.bytes, n)))
          ELSE Buffer(size, Zeroed(size, << BOM >>))

\* a call that returns early reads none of the later inputs
CallToUtf16 ==
  /\ ~dst.returned
  /\ \E callocOk \in (IF src.null THEN {TRUE} ELSE BOOLEAN) :
       \E iconvOk \in (IF src.null \/ ~callocOk THEN {TRUE} ELSE BOOLEAN) :
         dst' = ToUtf16(src, callocOk, iconvOk)
  /\ UNCHANGED src
  /\ UNCHANGED encVars

\* a session on which nothing is called but the text transcoder, once, with
\* any argument
UtfInit ==
  /\ m_encoder = TRUE
  /\ m_audio_pos = 0
  /\ m_buffer = Rep("uninit", BufferSize)
  /\ sink = << >>
  /\ sinkPos = 0
  /\ lame_ready = FALSE
  /\ lame_vbr = 0
  /\ lame_resv = 0
  /\ pc = "idle"
  /\ numBytesRead = 0
  /\ bytes_left = 0
  /\ stream = 0
  /\ ret = Returned("none", FALSE, 0, << >>)
  /\ log = << >>
  /\ pre = [audio_pos |-> 0, sinkPos |-> 0, sinkLen |-> 0, resv |-> 0]
  /\ hist = << >>
  /\ src \in Sources
  /\ dst = NotReturned

UtfNext == CallToUtf16

UtfSpec == UtfInit /\ [][UtfNext]_vars

(***************************************************************************)
(* Observations used by the properties below.  When pc = "idle", ret, log  *)
(* and pre all belong to the last completed call.                          *)
(***************************************************************************)
Done(op) == pc = "idle" /\ ret.op = op

Calls(kind, site) ==
  { i \in DOMAIN log : log[i][1] = kind /\ log[i][2] = site }

NoSinkCall == \A i \in DOMAIN log : log[i][1] \notin {"Write", "Seek"}

NoLameCall == \A i \in DOMAIN log : log[i][1] # "lame"

\* what the (first) call to the library function `site` returned
Result(site) == log[CHOOSE i \in Calls("lame", site) : TRUE][3]

SinkUntouched == sinkPos = pre.sinkPos /\ RLen(sink) = pre.sinkLen

\* Start returned success and wrote a leading tag of TagBytes bytes
EmittedTag == Done("Start") /\ ret.ok /\ Calls("Write", "tag") # {}

TagBytes == log[CHOOSE i \in Calls("Write", "tag") : TRUE][3]

\* the calls of Start completed so far
StartCalls == { i \in DOMAIN hist : hist[i][1] = "Start" }

\* the first k bytes of the sink are those a tag Write of Start stored
\* (tag bytes, or what m_buffer held and what lies behind it when the
\* retrieval stored nothing)
HeadWrittenByStart(k) ==
  LET head == RTake(sink, k)
  IN /\ RLen(head) = k
     /\ \A i \in DOMAIN head : head[i][1] \in {"tag", "uninit", "oob"}

\* ToUtf16's result is an allocation that starts with the BOM and holds,
\* inside its size, everything stored and a zero unit after it, and is at
\* least 4 bytes per byte of the argument
TerminatedInside ==
  /\ ~dst.null
  /\ dst.units[1] = BOM
  /\ 2 * Len(dst.units) <= dst.size
  /\ \E k \in 2 .. Len(dst.units) : dst.units[k] = 0
  /\ dst.size >= 4 * Len(src.bytes)
  /\ src.bytes = << >> => dst.units[2] = 0

\* the bytes the Write calls among `entries` were given, in all
RECURSIVE BytesWritten(_)
BytesWritten(entries) ==
  IF entries = << >> THEN 0
  ELSE (IF entries[1][1] = "Write" THEN entries[1][3] ELSE 0)
         + BytesWritten(Tail(entries))

\* the bytes the encode calls among `entries` reported as stored, in all
RECURSIVE BytesEncoded(_)
BytesEncoded(entries) ==
  IF entries = << >> THEN 0
  ELSE (IF /\ entries[1][1] = "lame"
           /\ entries[1][2] = "encode"
           /\ entries[1][4] >= 0
        THEN entries[1][4] ELSE 0)
         + BytesEncoded(Tail(entries))

\* Finish sought back or wrote the summary frame
Patched == Calls("Seek", "summary") # {} \/ Calls("Write", "summary") # {}

\* a successful Start, then successful Encode calls, then a successful
\* Finish, and nothing else
CleanSession ==
  /\ pc = "idle"
  /\ Len(hist) >= 2
  /\ hist[1] = << "Start", TRUE >>
  /\ hist[Len(hist)] = << "Finish", TRUE >>
  /\ \A i \in 2 .. (Len(hist) - 1) : hist[i] = << "Encode", TRUE >>

(***************************************************************************)
(* C1: every call of Encode on a live encoder handle eventually returns,   *)
(* whatever the length of its input (multiples of 4 or not) and whether    *)
(* or not the encoder reports an error.  Checked under FairSpec.           *)
(***************************************************************************)
C1_EncodeReturns == (pc = "encode") ~> (pc = "idle")

(***************************************************************************)
(* C2: a non-negative result of Encode for an n-byte input is              *)
(* 4 * floor(n / 4).                                                       *)
(***************************************************************************)
C2_ConsumedWholeFrames ==
  (Done("Encode") /\ ret.val >= 0) =>
    ret.val = bytes_per_frame * (ret.arg[1] \div bytes_per_frame)

C2_Witness ==
  /\ Done("Encode")
  /\ ret.val > BatchBytes
  /\ Cardinality(Calls("lame", "encode")) > 1

(***************************************************************************)
(* C3: Start with a channel count other than 2 or a sample width other     *)
(* than 16 returns failure, calls neither the sink nor the encoder, and    *)
(* leaves m_audio_pos as it was.                                           *)
(***************************************************************************)
C3_StartRejectsFormat ==
  (Done("Start") /\ (ret.arg[1] # 2 \/ ret.arg[2] # 16)) =>
    /\ ~ret.ok
    /\ NoSinkCall
    /\ NoLameCall
    /\ SinkUntouched
    /\ m_audio_pos = pre.audio_pos

C3_Witness ==
  /\ Done("Start")
  /\ m_encoder
  /\ ret.arg = << 1, 16 >>
  /\ ~ret.ok
  /\ pre.audio_pos > 0

C5_PatchOnlyWhenBothPositive ==
  Done("Finish") =>
    /\ Patched => (pre.audio_pos > 0 /\ Result("get_lametag_frame") > 0)
    /\ pre.audio_pos = 0 =>
         (~Patched /\ \A i \in DOMAIN log : log[i][1] # "Seek")

C5_Witness ==
  /\ Done("Finish")
  /\ ret.ok
  /\ pre.audio_pos = 0
  /\ Result("get_lametag_frame") > 0
  /\ ~Patched

(***************************************************************************)
(* C6: with a live handle, Finish fails exactly when the flush reports a   *)
(* negative result, and then calls neither Write nor Seek.                 *)
(***************************************************************************)
C6_FinishFailsIffFlushFails ==
  (Done("Finish") /\ m_encoder) =>
    /\ Calls("lame", "flush") # {}
    /\ ~ret.ok <=> Result("flush") < 0
    /\ ~ret.ok => (NoSinkCall /\ SinkUntouched)

C6_Witness ==
  /\ Done("Finish")
  /\ m_encoder
  /\ ~ret.ok
  /\ Result("flush") < 0
  /\ pre.sinkLen > 0

C8_RemainderReported ==
  [][(pc = "encode" /\ bytes_left < bytes_per_frame) =>
       /\ stream = numBytesRead - bytes_left
       /\ pc' = "idle"
       /\ ret'.op = "Encode"
       /\ ret'.ok => ret'.val = numBytesRead - bytes_left]_vars

(***************************************************************************)
(* C9: after a successful Start, successful Encode calls and a successful  *)
(* Finish, the sink holds the leading tag (L1 bytes), the compressed       *)
(* audio, and the trailing tag as its last bytes; the summary frame        *)
(* occupies bytes [L1, L1 + L2) only, inside the audio, and the patch      *)
(* changes neither tag nor the length of the stream.                       *)
(***************************************************************************)
C9_StreamLayout ==
  CleanSession =>
    LET n == RLen(sink)
        L1 == m_audio_pos
        v == Result("get_id3v1_tag")
        L2 == IF Patched THEN Result("get_lametag_frame") ELSE 0
        audio == RTake(RDrop(sink, L1), n - v - L1)
    IN /\ RTake(sink, L1) = Rep("tag", L1)
       /\ RDrop(sink, n - v) = Rep("v1", v)
       /\ L1 + L2 <= n - v
       /\ \A i \in DOMAIN audio : audio[i][1] \in {"summary", "resv", "audio"}
       /\ RTake(audio, L2) = Rep("summary", L2)
       /\ RCount(sink, "summary") = L2
       /\ n = pre.sinkLen + Result("flush") + v

(***************************************************************************)
(* C10: without an encoder handle, Encode returns -1 and Finish returns    *)
(* failure, and neither calls the encoder or the sink.                     *)
(***************************************************************************)
C10_NoHandle ==
  (pc = "idle" /\ ~m_encoder) =>
    /\ ret.op = "Encode" => ret.val = -1
    /\ ret.op = "Finish" => ~ret.ok
    /\ ret.op \in {"Encode", "Finish"} =>
         (NoLameCall /\ NoSinkCall /\ SinkUntouched)
    /\ sink = << >>

C10_Witness ==
  /\ ~m_encoder
  /\ hist = << << "Encode", FALSE >>, << "Finish", FALSE >> >>
  /\ ret.op = "Finish"
  /\ pc = "idle"

C13_InitFailureWritesNothing ==
  (/\ Done("Start")
   /\ Calls("lame", "init_params") # {}
   /\ Result("init_params") < 0) =>
    /\ ~ret.ok
    /\ NoSinkCall
    /\ SinkUntouched
    /\ m_audio_pos = pre.audio_pos

C13_Witness ==
  /\ Done("Start")
  /\ Calls("lame", "init_params") # {}
  /\ Result("init_params") < 0
  /\ ~ret.ok
  /\ pre.audio_pos > 0
  /\ pre.sinkLen > 0
(***************************************************************************)
(* C14, as claimed: ToUtf16 returns null for a null argument; for every    *)
(* other argument, of l >= 0 bytes, converted or not, it returns an        *)
(* allocation of at least 4 * l bytes whose first unit is the BOM 0xFEFF   *)
(* and which holds the converted units and a zero unit after them; for     *)
(* the empty string the unit after the BOM is zero.                        *)
(***************************************************************************)
C14_AlwaysABuffer ==
  dst.returned =>
    /\ src.null => (dst.null /\ dst.calloc = "none")
    /\ ~src.null => TerminatedInside

(***************************************************************************)
(* C14, as amended: ToUtf16 returns null for a null argument, and for any  *)
(* other argument when calloc fails; for every other argument, of l >= 0   *)
(* bytes, converted or not, and calloc succeeding, it returns an           *)
(* allocation of at least 4 * l bytes whose first unit is the BOM 0xFEFF   *)
(* and which holds the converted units and a zero unit after them; for     *)
(* the empty string the unit after the BOM is zero.                        *)
(***************************************************************************)
C14_BufferUnlessAllocFails ==
  dst.returned =>
    /\ src.null => (dst.null /\ dst.calloc = "none")
    /\ (~src.null /\ dst.calloc = "failed") => dst.null
    /\ (~src.null /\ dst.calloc # "failed") => TerminatedInside

\* U+1F000 converted to a surrogate pair
C14_Witness ==
  /\ dst.returned
  /\ src = String(<< 240, 159, 128, 128 >>)
  /\ ~dst.null
  /\ SubSeq(dst.units, 1, 4) = << BOM, 55356, 56320, 0 >>
  /\ 2 * Len(dst.units) = dst.size
(***************************************************************************)
(* C15: the sink calls of a Finish come in this order: the Write of the    *)
(* flush output, the Write of the trailing ID3v1 tag (if one is            *)
(* produced), the one Seek, the Write of the summary frame.  Only Finish   *)
(* calls Seek, at most once, and to m_audio_pos, which is no more than     *)
(* the number of bytes the sink already holds.                             *)
(***************************************************************************)
C15_FinishOrder ==
  LET flush == Calls("Write", "flush")
      id3v1 == Calls("Write", "id3v1")
      seek == Calls("Seek", "summary")
      patch == Calls("Write", "summary")
  IN /\ \A i \in DOMAIN log : log[i][1] = "Seek" => Done("Finish")
     /\ Done("Finish") =>
          /\ \A i \in DOMAIN log :
               log[i][1] \in {"Write", "Seek"}
                 => i \in flush \cup id3v1 \cup seek \cup patch
          /\ Cardinality(flush) = (IF ret.ok THEN 1 ELSE 0)
          /\ Cardinality(id3v1)
               = (IF ret.ok /\ Result("get_id3v1_tag") > 0 THEN 1 ELSE 0)
          /\ Cardinality(seek) <= 1
          /\ Cardinality(patch) = Cardinality(seek)
          /\ \A a \in flush, b \in id3v1 \cup seek \cup patch : a < b
          /\ \A a \in id3v1, b \in seek \cup patch : a < b
          /\ \A a \in seek, b \in patch : a < b
          /\ \A i \in seek : /\ log[i][3] = m_audio_pos
                              /\ log[i][3] <= pre.sinkLen

C15_Witness ==
  /\ Done("Finish")
  /\ ret.ok
  /\ Calls("Write", "id3v1") # {}
  /\ Calls("Seek", "summary") # {}
  /\ Calls("Write", "summary") # {}
  /\ pre.sinkLen > m_audio_pos
  /\ Result("flush") > 0
(***************************************************************************)
(* C16: when lame_encode_buffer_interleaved reports a negative result on   *)
(* a batch, Encode returns -1 at once: nothing is written for that batch,  *)
(* no further batch is encoded, and what the earlier batches of the call   *)
(* wrote stays in the sink.                                                *)
(***************************************************************************)
C16_EncodeErrorStops ==
  (Done("Encode") /\ m_encoder /\ ~ret.ok) =>
    LET encode == Calls("lame", "encode")
        last == Len(log)
    IN /\ ret.val = -1
       /\ last \in encode
       /\ log[last][4] < 0
       /\ \A i \in encode \ {last} :
            /\ log[i][4] >= 0
            /\ log[i + 1] = WriteCall("audio", log[i][4])
       /\ Cardinality(Calls("Write", "audio")) = Cardinality(encode) - 1
       /\ sinkPos = pre.sinkPos + BytesWritten(log)
       /\ RLen(sink) >= sinkPos
       /\ \A r \in DOMAIN RTake(RDrop(sink, pre.sinkPos), BytesWritten(log)) :
            RTake(RDrop(sink, pre.sinkPos), BytesWritten(log))[r][1]
              \in {"resv", "audio"}

C16_Witness ==
  /\ Done("Encode")
  /\ ret.val = -1
  /\ Cardinality(Calls("lame", "encode")) = 2
  /\ log[Len(log)][4] < 0
  /\ sinkPos > pre.sinkPos
  /\ RLen(sink) > pre.sinkLen
(***************************************************************************)
(* C17: in Encode, what each encoder call stored in m_buffer is written    *)
(* to the sink before the next encoder call, so the bytes the call has     *)
(* put into the sink are the outputs of its encoder calls, in order (the   *)
(* placeholder the encoder reserved first, then audio), none lost, none    *)
(* twice.                                                                  *)
(***************************************************************************)
C17_OutputsInOrder ==
  ((pc = "encode" \/ Done("Encode")) /\ m_encoder) =>
    LET total == BytesEncoded(log)
        resv == Min(pre.resv, total)
    IN /\ \A i \in Calls("lame", "encode") :
            log[i][4] >= 0 =>
              (i < Len(log) /\ log[i + 1] = WriteCall("audio", log[i][4]))
       /\ Cardinality(Calls("Write", "audio"))
            = Cardinality({ i \in Calls("lame", "encode") : log[i][4] >= 0 })
       /\ sinkPos = pre.sinkPos + total
       /\ RLen(sink) = (IF sinkPos > pre.sinkLen THEN sinkPos
                        ELSE pre.sinkLen)
       /\ RTake(RDrop(sink, pre.sinkPos), total)
            = RNorm(Rep("resv", resv) \o Rep("audio", total - resv))

C17_Witness ==
  /\ Done("Encode")
  /\ ret.ok
  /\ Cardinality(Calls("lame", "encode")) = 2
  /\ \A i \in Calls("lame", "encode") : log[i][4] > 0
  /\ pre.resv > 0
  /\ BytesEncoded(log) > pre.resv
(***************************************************************************)
(* C18: no Write of Start, Encode or Finish is given more bytes of         *)
(* m_buffer than the 65536 it holds, also when a retrieval reports a       *)
(* length larger than the size it was offered.                             *)
(***************************************************************************)
C18_WriteWithinBuffer ==
  \A i \in DOMAIN log : log[i][1] = "Write" => log[i][3] <= BufferSize
====
